---- MODULE Spec2Model ----
(***************************************************************************)
(* Model of seaice/core/profile.py: the resampling of property profiles of *)
(* sea-ice cores (discretize_profile) and the normalisation of their       *)
(* vertical reference (Profile.set_vertical_reference,                     *)
(* set_profile_orientation, delete_profile).                               *)
(*                                                                         *)
(* Depths are integers counted in ticks of TOL/2, so that a difference of  *)
(* one tick lies strictly within the tolerance, a difference of two ticks  *)
(* is the tolerance itself and anything more lies beyond it.  Property     *)
(* values and everything computed from them are exact rationals n/d; the   *)
(* floating-point NaN is the rational with d = 0.                          *)
(***************************************************************************)
EXTENDS Integers, Sequences, FiniteSets, TLC

VARIABLES
    pc,               \* position of the call under way
    profile,          \* the Profile handed to the call (the caller's object)
    v_ref,            \* profile.v_ref.unique()[0] of the profile handed to discretize_profile
    y_bins,           \* argument y_bins of discretize_profile (<<>> is None)
    y_mid,            \* argument y_mid of discretize_profile (<<>> is None)
    fill_gap,         \* argument fill_gap
    fill_extremity,   \* argument fill_extremity
    yx,               \* local yx: the source sections (step) or points (continuous)
    x_step,           \* local x_step: the values of each emitted bin
    w_step,           \* local w_step: the weights of each emitted bin
    y_step,           \* local y_step: the two boundaries of each emitted bin, flat
    y2x,              \* local y2x: the values interpolated at the target depths
    w,                \* local w: the weights of the rows of y2x
    temp,             \* local temp: the rows of the discretized profile
    new_v_ref,        \* argument new_v_ref of set_vertical_reference
    h_ref,            \* argument h_ref of set_vertical_reference (<<>> is None)
    inplace,          \* argument inplace of set_vertical_reference
    new_profile,      \* the Profile set_profile_orientation works on and returns
    unique_variable,  \* the variable groups the loop of set_profile_orientation has yet to visit
    same_object,      \* whether new_profile is the very object the caller provided
    provided,         \* the rows of the caller's profile when the call began
    criteria,         \* argument variable_dict of delete_profile
    variables2del,    \* argument variables2del of delete_variables, as a list
    profile_target,   \* argument profile_target of uniformize_section
    profile_new       \* local profile_new of uniformize_section

vars == <<pc, profile, v_ref, y_bins, y_mid, fill_gap, fill_extremity, yx, x_step, w_step,
          y_step, y2x, w, temp,
          new_v_ref, h_ref, inplace, new_profile, unique_variable, same_object, provided,
          criteria, variables2del, profile_target, profile_new>>

(***************************************************************************)
(* Bounds of the model and constants of the program                        *)
(***************************************************************************)
TOL == 2            \* 1e-6, in ticks of TOL/2
MaxSections == 2    \* sections of a source profile
MaxBins == 3        \* target bins of a call

\* the section and bin edges of the model: more than TOL apart
Depths == {0, 5, 10, 15, 20}

(***************************************************************************)
(* Exact arithmetic standing for numpy's floats                            *)
(***************************************************************************)
Abs(i) == IF i < 0 THEN -i ELSE i

RECURSIVE GCD(_, _)
GCD(a, b) == IF b = 0 THEN a ELSE GCD(b, a % b)

NaN == [n |-> 0, d |-> 0]

isnan(q) == q.d = 0

Q(n, d) ==
    IF d = 0 THEN NaN
    ELSE LET g == GCD(Abs(n), Abs(d))
             s == IF d < 0 THEN -1 ELSE 1
         IN  [n |-> s * (n \div g), d |-> s * (d \div g)]

QInt(i) == [n |-> i, d |-> 1]

QAdd(a, b) == IF isnan(a) \/ isnan(b) THEN NaN ELSE Q(a.n * b.d + b.n * a.d, a.d * b.d)

QSub(a, b) == IF isnan(a) \/ isnan(b) THEN NaN ELSE Q(a.n * b.d - b.n * a.d, a.d * b.d)

QMul(a, b) == IF isnan(a) \/ isnan(b) THEN NaN ELSE Q(a.n * b.n, a.d * b.d)

QDiv(a, b) == IF isnan(a) \/ isnan(b) THEN NaN ELSE Q(a.n * b.d, a.d * b.n)

QEq(a, b) == IF isnan(a) \/ isnan(b) THEN FALSE ELSE a.n * b.d = b.n * a.d

QLe(a, b) == IF isnan(a) \/ isnan(b) THEN FALSE ELSE a.n * b.d <= b.n * a.d

\* np.nansum([a, b], axis=0) on one component: a NaN counts as zero
nansum(a, b) == QAdd(IF isnan(a) THEN QInt(0) ELSE a, IF isnan(b) THEN QInt(0) ELSE b)

(***************************************************************************)
(* Sequences                                                               *)
(***************************************************************************)
Reverse(s) == [i \in 1..Len(s) |-> s[Len(s) + 1 - i]]

RECURSIVE InsertByYLow(_, _)
InsertByYLow(s, r) ==
    IF s = <<>> THEN <<r>>
    ELSE IF r.y_low < Head(s).y_low THEN <<r>> \o s
    ELSE <<Head(s)>> \o InsertByYLow(Tail(s), r)

\* DataFrame.sort_values(by='y_low'): ascending
RECURSIVE SortByYLow(_)
SortByYLow(s) ==
    IF s = <<>> THEN <<>>
    ELSE InsertByYLow(SortByYLow(SubSeq(s, 1, Len(s) - 1)), s[Len(s)])

\* (np.diff(s) < 0).all() and (np.diff(s) > 0).all(); both hold of a single element
Descending(s) == \A i \in 1..(Len(s) - 1) : s[i + 1] - s[i] < 0

Ascending(s) == \A i \in 1..(Len(s) - 1) : s[i + 1] - s[i] > 0

\* np.unique of a list of integers: its distinct values, ascending
RECURSIVE SetToSortedSeq(_)
SetToSortedSeq(S) ==
    IF S = {} THEN <<>>
    ELSE LET m == CHOOSE x \in S : \A y \in S : x <= y
         IN  <<m>> \o SetToSortedSeq(S \ {m})

unique(s) == SetToSortedSeq({s[i] : i \in 1..Len(s)})

(***************************************************************************)
(* discretize_profile, step profile: the source sections                   *)
(***************************************************************************)
\* A row of a section profile is [y_low, y_sup, x], x the values of the
\* resampled properties (_variables) in their order; a row of yx is
\* [c0, c1, x]: columns 0 and 1, and columns n_s0 to n_s1 - 1.

\* number of resampled properties of the variable group
n_var(p) == Len(p[1].x)

\* the columns of yx and their order, sorted by y_low; a profile referenced to the
\* bottom whose first section has y_sup <= y_low is read with its two edges exchanged
StepColumns(p, ref) ==
    LET sorted == SortByYLow(p)
        exchanged == ref = "bottom" /\ ~(sorted[1].y_sup > sorted[1].y_low)
    IN  [i \in 1..Len(sorted) |->
            IF exchanged
            THEN [c0 |-> sorted[i].y_sup, c1 |-> sorted[i].y_low, x |-> sorted[i].x]
            ELSE [c0 |-> sorted[i].y_low, c1 |-> sorted[i].y_sup, x |-> sorted[i].x]]

\* the section with NaN as values that fills the gap after row r of s
EmptySection(s, r) ==
    [c0 |-> s[r].c1, c1 |-> s[r + 1].c0, x |-> [v \in 1..Len(s[r].x) |-> NaN]]

\* the loop over range(len(yx) - 1): each row but the last, followed by an empty
\* section when the next row does not start where it ends
RECURSIVE GapLoop(_, _)
GapLoop(s, r) ==
    IF r > Len(s) - 1 THEN <<>>
    ELSE <<s[r]>>
         \o (IF Abs(s[r].c1 - s[r + 1].c0) > TOL THEN <<EmptySection(s, r)>> ELSE <<>>)
         \o GapLoop(s, r + 1)

\* yx_new.append(yx[row+1, :]) after the loop: the loop variable row is unbound when
\* the loop ran no iteration, that is when yx holds a single row
RowIsBound(s) == Len(s) - 1 >= 1

InsertGaps(s) == GapLoop(s, 1) \o <<s[Len(s)]>>

\* fill_gap: the nearest rows before and after row i holding a value of the first
\* property (0: none); value.fillna(method='ffill') and 'bfill' read them
PrevValid(s, i) ==
    LET J == {j \in 1..(i - 1) : ~isnan(s[j].x[1])}
    IN  IF J = {} THEN 0 ELSE CHOOSE j \in J : \A k \in J : k <= j

NextValid(s, i) ==
    LET J == {j \in (i + 1)..Len(s) : ~isnan(s[j].x[1])}
    IN  IF J = {} THEN 0 ELSE CHOOSE j \in J : \A k \in J : j <= k

\* new_value of row i: value_low + (ymid2 - y_sup of the previous valid row)
\*                                 * (value_sup - value_low) / dy2w
FillValue(s, i) ==
    LET lo == PrevValid(s, i)
        hi == NextValid(s, i)
        ymid == Q(2 * s[i].c0 + (s[i].c1 - s[i].c0), 2)
    IN  IF lo = 0 \/ hi = 0 THEN NaN
        ELSE QAdd(s[lo].x[1],
                  QDiv(QMul(QSub(ymid, QInt(s[lo].c1)), QSub(s[hi].x[1], s[lo].x[1])),
                       QInt(s[hi].c0 - s[lo].c1)))

\* value.update(new_value); yx[:, 2] = value: only column 2, the first property, is
\* filled, and a NaN new_value leaves the value as it is
FillGap(s) ==
    [i \in 1..Len(s) |->
        IF isnan(s[i].x[1])
        THEN [s[i] EXCEPT !.x = [v \in 1..Len(s[i].x) |->
                                    IF v = 1 THEN FillValue(s, i) ELSE s[i].x[v]]]
        ELSE s[i]]

\* y_bins and yx are reversed when they are descending
SortBins(bins) == IF Descending(bins) THEN Reverse(bins) ELSE bins

SortSections(s) ==
    IF Descending([i \in 1..Len(s) |-> s[i].c0]) THEN Reverse(s) ELSE s

\* yx as the loop over the bins reads it
Sections(p, ref, gap) ==
    LET filled == InsertGaps(StepColumns(p, ref))
    IN  SortSections(IF gap THEN FillGap(filled) ELSE filled)

(***************************************************************************)
(* discretize_profile, step profile: the loop over the target bins         *)
(***************************************************************************)
\* a: the rows of yx that reach over the lower edge lo of the bin, lie within the
\* bin, or reach over its upper edge hi; np.unique leaves them ascending
Touches(r, lo, hi) ==
    \/ (r.c0 - lo < -TOL /\ lo - r.c1 < -TOL)
    \/ (lo - r.c0 <= TOL /\ r.c1 - hi <= TOL)
    \/ (r.c0 - hi < -TOL /\ hi - r.c1 < -TOL)

RECURSIVE InBinFrom(_, _, _, _)
InBinFrom(s, lo, hi, i) ==
    IF i > Len(s) THEN <<>>
    ELSE (IF Touches(s[i], lo, hi) THEN <<i>> ELSE <<>>) \o InBinFrom(s, lo, hi, i + 1)

InBin(s, lo, hi) == InBinFrom(s, lo, hi, 1)

\* S = [nan] * n_var, L = zeros, a_ii = 0 (a_ii counts from 1 here)
Acc0(n) == [S |-> [v \in 1..n |-> NaN], L |-> [v \in 1..n |-> 0], a_ii |-> 1]

\* the loop with the length counted whether the section holds a value or NaN
AccumulateAnyValue(acc, row, l, step) ==
    [S    |-> [v \in DOMAIN acc.S |-> nansum(acc.S[v], QMul(row.x[v], QInt(l)))],
     L    |-> [v \in DOMAIN acc.L |-> acc.L[v] + l],
     a_ii |-> acc.a_ii + step]

\* S_temp = values * l; S = nansum([S, S_temp]); L = nansum([L, l * ~isnan(S_temp)]);
\* a_ii += step.  (L_nan is accumulated by the code and never read.)
Accumulate(acc, row, l, step) ==
    [S    |-> [v \in DOMAIN acc.S |-> nansum(acc.S[v], QMul(row.x[v], QInt(l)))],
     L    |-> [v \in DOMAIN acc.L |-> acc.L[v] + (IF isnan(row.x[v]) THEN 0 ELSE l)],
     a_ii |-> acc.a_ii + step]

\* the first section of a, when it starts before the bin: counted from lo to its end
FirstSection(acc, s, a, lo) ==
    LET row == s[a[acc.a_ii]]
    IN  IF row.c0 - lo < -TOL THEN Accumulate(acc, row, row.c1 - lo, 1) ELSE acc

\* the sections but the last of a that end before hi: counted whole
RECURSIVE WhileSections(_, _, _, _)
WhileSections(acc, s, a, hi) ==
    IF acc.a_ii < Len(a) /\ s[a[acc.a_ii]].c1 - hi < -TOL
    THEN WhileSections(Accumulate(acc, s[a[acc.a_ii]],
                                  s[a[acc.a_ii]].c1 - s[a[acc.a_ii]].c0, 1), s, a, hi)
    ELSE acc

\* the last section counted whole even when it ends after hi
LastSectionWhole(acc, s, a, hi) ==
    IF acc.a_ii <= Len(a)
    THEN Accumulate(acc, s[a[acc.a_ii]], s[a[acc.a_ii]].c1 - s[a[acc.a_ii]].c0, 0)
    ELSE acc

\* the section a_ii stopped at, when there is one: counted from its start to hi when
\* it ends at or after hi, whole when it ends before hi
LastSection(acc, s, a, hi) ==
    IF acc.a_ii <= Len(a)
    THEN LET row == s[a[acc.a_ii]]
         IN  IF row.c1 - hi > -TOL THEN Accumulate(acc, row, hi - row.c0, 0)
             ELSE IF row.c1 - hi < -TOL THEN Accumulate(acc, row, row.c1 - row.c0, 0)
             ELSE acc
    ELSE acc

BinSums(s, a, lo, hi) ==
    LastSection(WhileSections(FirstSection(Acc0(Len(s[1].x)), s, a, lo), s, a, hi), s, a, hi)

\* w = L / (y_bins[ii_bin + 1] - y_bins[ii_bin])
BinWeight(acc, lo, hi) == [v \in DOMAIN acc.L |-> Q(acc.L[v], hi - lo)]

\* L[L == 0] = np.nan; S = S / L
BinValue(acc) ==
    [v \in DOMAIN acc.S |-> IF acc.L[v] = 0 THEN NaN ELSE QDiv(acc.S[v], QInt(acc.L[v]))]

\* the two boundaries appended to y_step for a bin
BinEdges(s, a, lo, hi, extremity) ==
    IF s[a[1]].c0 - lo > TOL /\ ~extremity THEN <<s[a[1]].c0, hi>>
    ELSE IF s[a[Len(a)]].c1 - hi < -TOL /\ ~extremity THEN <<lo, s[a[Len(a)]].c1>>
    ELSE <<lo, hi>>

\* what one pass of the loop body appends to x_step, w_step and y_step
BinStep(s, a, lo, hi, extremity) ==
    LET acc == BinSums(s, a, lo, hi)
    IN  [x |-> BinValue(acc), w |-> BinWeight(acc, lo, hi), y |-> BinEdges(s, a, lo, hi, extremity)]

\* the loop over range(len(y_bins) - 1), from ii_bin on (ii_bin counts from 1 here):
\* a bin no section touches appends nothing
RECURSIVE BinLoop(_, _, _, _)
BinLoop(s, bins, extremity, ii_bin) ==
    IF ii_bin > Len(bins) - 1 THEN <<>>
    ELSE LET a == InBin(s, bins[ii_bin], bins[ii_bin + 1])
         IN  (IF a # <<>> THEN <<BinStep(s, a, bins[ii_bin], bins[ii_bin + 1], extremity)>>
              ELSE <<>>)
             \o BinLoop(s, bins, extremity, ii_bin + 1)

RECURSIVE Column(_, _)
Column(loop, k) ==
    IF loop = <<>> THEN <<>>
    ELSE (IF k = "x" THEN <<Head(loop).x>> ELSE IF k = "w" THEN <<Head(loop).w>> ELSE Head(loop).y)
         \o Column(Tail(loop), k)

(***************************************************************************)
(* discretize_profile, step profile: the rows of the result                *)
(***************************************************************************)
\* np.vstack of the rows of length len(unique(y_step)) - 1 with w_step and x_step, and
\* the DataFrame of its transpose under 3 + 2 * n_var column names: both raise
\* ValueError unless every emitted bin has its own pair of boundaries (with no bin
\* emitted, the five empty rows fit the column names for one property only)
Stackable(xs, ys, n) ==
    IF Len(xs) = 0 THEN n = 1 ELSE Len(unique(ys)) - 1 = Len(xs)

\* one row per pair of consecutive boundaries of unique(y_step)
RECURSIVE RowLoop(_, _, _, _)
RowLoop(xs, ws, u, j) ==
    IF j > Len(u) - 1 THEN <<>>
    ELSE <<[y_low |-> u[j], y_mid |-> Q(2 * u[j] + (u[j + 1] - u[j]), 2), y_sup |-> u[j + 1],
            w |-> ws[j], x |-> xs[j]]>>
         \o RowLoop(xs, ws, u, j + 1)

StepRows(xs, ws, ys) == RowLoop(xs, ws, unique(ys), 1)

(***************************************************************************)
(* discretize_profile: the call                                            *)
(***************************************************************************)
\* A column that holds no value is not carried: the rows of a point profile have no
\* y_low, which is both "no y_low column" and "y_low entirely null".
is_continuous(p) == \A i \in 1..Len(p) : "y_low" \notin DOMAIN p[i]

\* y_bins when y_bins and y_mid are both None: the sorted distinct y_low and y_sup
DerivedBins(p) ==
    SetToSortedSeq({p[i].y_low : i \in 1..Len(p)} \cup {p[i].y_sup : i \in 1..Len(p)})

\* discretize_profile(profile, y_bins=bins, y_mid=None, fill_gap=gap,
\* fill_extremity=extremity) on a section profile of one variable group, up to the
\* loop over the bins: y_bins, then yx sorted, with its gaps made sections, filled
\* and put in ascending order.  A profile of a single section raises at the row that
\* follows the loop over the gaps (NameError for the first group of a profile, whose
\* loop variable is unbound; IndexError after a group that left it bound).
StepSections(bins, gap, extremity) ==
    /\ pc = "start"
    /\ ~is_continuous(profile)
    /\ fill_gap' = gap
    /\ fill_extremity' = extremity
    /\ LET b0 == IF bins = <<>> THEN DerivedBins(profile) ELSE bins
           cols == StepColumns(profile, v_ref)
       IN  IF ~RowIsBound(cols)
           THEN pc' = "NameError" /\ y_bins' = b0 /\ yx' = cols
           ELSE pc' = "bins" /\ y_bins' = SortBins(b0) /\ yx' = Sections(profile, v_ref, gap)
    /\ UNCHANGED <<profile, v_ref, y_mid, x_step, w_step, y_step, y2x, w, temp,
                   new_v_ref, h_ref, inplace, new_profile,
                   unique_variable, same_object, provided,
                   criteria, variables2del, profile_target, profile_new>>

\* the loop over the bins and the rows of the result
StepBins ==
    /\ pc = "bins"
    /\ LET loop == BinLoop(yx, y_bins, fill_extremity, 1)
       IN  /\ x_step' = Column(loop, "x")
           /\ w_step' = Column(loop, "w")
           /\ y_step' = Column(loop, "y")
    /\ IF Stackable(x_step', y_step', n_var(profile))
       THEN pc' = "done" /\ temp' = StepRows(x_step', w_step', y_step')
       ELSE pc' = "ValueError" /\ temp' = <<>>
    /\ UNCHANGED <<profile, v_ref, y_bins, y_mid, fill_gap, fill_extremity, yx, y2x, w,
                   new_v_ref, h_ref, inplace, new_profile,
                   unique_variable, same_object, provided,
                   criteria, variables2del, profile_target, profile_new>>

\* discretize_profile on an empty profile: the warning is logged and the call goes on
\* to profile.v_ref.unique()[0], which raises IndexError, the column v_ref having no
\* value (AttributeError when the empty profile has no column v_ref either)
EmptyProfile ==
    /\ pc = "start"
    /\ profile = <<>>
    /\ \E e \in {"IndexError", "AttributeError"} : pc' = e
    /\ UNCHANGED <<profile, v_ref, y_bins, y_mid, fill_gap, fill_extremity, yx, x_step, w_step,
                   y_step, y2x, w, temp, new_v_ref, h_ref, inplace, new_profile,
                   unique_variable, same_object, provided,
                   criteria, variables2del, profile_target, profile_new>>

(***************************************************************************)
(* The section profiles and the target bins of the model                   *)
(***************************************************************************)
MaxDepth == CHOOSE d \in Depths : \A e \in Depths : e <= d

Intervals == {e \in Depths \X Depths : e[1] < e[2]}

\* up to MaxSections sections that do not overlap
Layouts ==
    {l \in SUBSET Intervals :
        /\ Cardinality(l) \in 1..MaxSections
        /\ \A e, f \in l : e # f => (e[2] <= f[1] \/ f[2] <= e[1])}

\* the values of the two properties of a section
RowValues == {<<QInt(5), QInt(3)>>, <<QInt(7), QInt(3)>>, <<NaN, QInt(3)>>, <<QInt(7), NaN>>}

RECURSIVE LayoutSeq(_)
LayoutSeq(l) ==
    IF l = {} THEN <<>>
    ELSE LET m == CHOOSE e \in l : \A f \in l : e[1] <= f[1]
         IN  <<m>> \o LayoutSeq(l \ {m})

SectionRows(l, f) ==
    LET q == LayoutSeq(l)
    IN  [i \in 1..Len(q) |-> [y_low |-> q[i][1], y_sup |-> q[i][2], x |-> f[q[i]]]]

\* a profile referenced to the top, its sections in the order of their depth
TopProfiles == UNION {{SectionRows(l, f) : f \in [l -> RowValues]} : l \in Layouts}

\* the same profile after set_profile_orientation has turned it to the bottom with a
\* core length of MaxDepth: each depth is MaxDepth - depth, the rows keep their order
Mirrored(p) ==
    [i \in 1..Len(p) |->
        [y_low |-> MaxDepth - p[i].y_low, y_sup |-> MaxDepth - p[i].y_sup, x |-> p[i].x]]

\* strictly ascending bin edges, the same descending, and None
AscendingBins ==
    {SetToSortedSeq(b) : b \in {c \in SUBSET Depths : Cardinality(c) \in 2..(MaxBins + 1)}}

BinArguments == AscendingBins \cup {Reverse(b) : b \in AscendingBins} \cup {<<>>}

StepInit ==
    /\ pc = "start"
    /\ \/ \E p \in TopProfiles, ref \in {"top", "bottom"}, turned \in BOOLEAN :
             /\ turned => ref = "bottom"
             /\ profile = IF turned THEN Mirrored(p) ELSE p
             /\ v_ref = ref
       \/ profile = <<>> /\ v_ref = "None"
    /\ y_bins = <<>>
    /\ y_mid = <<>>
    /\ fill_gap = FALSE
    /\ fill_extremity = FALSE
    /\ yx = <<>>
    /\ x_step = <<>>
    /\ w_step = <<>>
    /\ y_step = <<>>
    /\ y2x = <<>>
    /\ w = <<>>
    /\ temp = <<>>
    /\ new_v_ref = "None"
    /\ h_ref = <<>>
    /\ inplace = FALSE
    /\ new_profile = <<>>
    /\ unique_variable = <<>>
    /\ same_object = FALSE
    /\ provided = profile
    /\ criteria = <<>>
    /\ variables2del = <<>>
    /\ profile_target = <<>>
    /\ profile_new = <<>>

StepNext ==
    \/ \E bins \in BinArguments, gap \in BOOLEAN, extremity \in BOOLEAN :
          StepSections(bins, gap, extremity)
    \/ StepBins
    \/ EmptyProfile

SpecStep == StepInit /\ [][StepNext]_vars

(***************************************************************************)
(* Step resampling: what the claims speak of                               *)
(***************************************************************************)
Min(a, b) == IF a <= b THEN a ELSE b

Max(a, b) == IF a >= b THEN a ELSE b

\* the length a source section shares with the bin [lo, hi)
Overlap(r, lo, hi) == Min(r.c1, hi) - Max(r.c0, lo)

\* the source sections that overlap target bin i, and those holding a value of property v
Overlapping(i) == {k \in 1..Len(yx) : Overlap(yx[k], y_bins[i], y_bins[i + 1]) > 0}

ValidOverlapping(i, v) == {k \in Overlapping(i) : ~isnan(yx[k].x[v])}

\* the row of the result that target bin i gets: bins no section overlaps get none
BinRow(i) == Cardinality({j \in 1..i : Overlapping(j) # {}})

Width(i) == y_bins[i + 1] - y_bins[i]

RECURSIVE ValueLength(_, _, _)
ValueLength(K, i, v) ==
    IF K = {} THEN QInt(0)
    ELSE LET k == CHOOSE j \in K : TRUE
         IN  QAdd(QMul(yx[k].x[v], QInt(Overlap(yx[k], y_bins[i], y_bins[i + 1]))),
                  ValueLength(K \ {k}, i, v))

RECURSIVE OverlapLength(_, _)
OverlapLength(K, i) ==
    IF K = {} THEN 0
    ELSE LET k == CHOOSE j \in K : TRUE
         IN  Overlap(yx[k], y_bins[i], y_bins[i + 1]) + OverlapLength(K \ {k}, i)

\* the length the loop counts for a section: its overlap with the bin, but from the
\* lower edge of the bin to its own end when it starts before the bin
Counted(r, lo, hi) == IF r.c0 < lo THEN r.c1 - lo ELSE Min(r.c1, hi) - r.c0

RECURSIVE CountedLength(_, _)
CountedLength(K, i) ==
    IF K = {} THEN 0
    ELSE LET k == CHOOSE j \in K : TRUE
         IN  Counted(yx[k], y_bins[i], y_bins[i + 1]) + CountedLength(K \ {k}, i)

StepBinsOf == 1..(Len(y_bins) - 1)

StepReturned == pc \in {"done", "NameError", "ValueError"}

\* C1: for ascending source sections with their gaps made sections and strictly
\* ascending y_bins, every target bin that overlaps a section holding a value of a
\* property gets a row whose value of that property is the sum of value * overlap
\* over the sum of overlap, taken over the overlapping sections that hold a value.
C1_StepValueIsLengthWeightedMean ==
    (pc \in {"done", "ValueError"} /\ Ascending(y_bins)) =>
        \A i \in StepBinsOf : \A v \in 1..n_var(profile) :
            ValidOverlapping(i, v) # {} =>
                /\ pc = "done"
                /\ BinRow(i) \in 1..Len(temp)
                /\ QEq(temp[BinRow(i)].x[v],
                       QDiv(ValueLength(ValidOverlapping(i, v), i, v),
                            QInt(OverlapLength(ValidOverlapping(i, v), i))))

\* sections (0,10,5), (10,20,7) resampled on the bins [0,5,15,20] give 5, 6 and 7
C1_Witness ==
    /\ pc = "done"
    /\ y_bins = <<0, 5, 15, 20>>
    /\ Len(yx) = 2
    /\ yx[1].c0 = 0 /\ yx[1].c1 = 10 /\ yx[1].x[1] = QInt(5)
    /\ yx[2].c0 = 10 /\ yx[2].c1 = 20 /\ yx[2].x[1] = QInt(7)
    /\ Len(temp) = 3
    /\ temp[1].x[1] = QInt(5) /\ temp[2].x[1] = QInt(6) /\ temp[3].x[1] = QInt(7)

\* C2, as claimed: the weight of a target bin and property is the length of the bin
\* that source sections cover, whether they hold a value of the property or NaN,
\* over the nominal width of the bin.
C2_WeightIsCoverageByAnySection ==
    pc = "done" =>
        \A i \in StepBinsOf : \A v \in 1..n_var(profile) :
            Overlapping(i) # {} =>
                temp[BinRow(i)].w[v] = Q(OverlapLength(Overlapping(i), i), Width(i))

\* C2, amended: the weight of a target bin and property is the length counted for
\* the overlapping sections that hold a value of the property, over the nominal width
\* of the bin; a section whose value is NaN counts for nothing.
C2_WeightIsValidLengthCounted ==
    pc = "done" =>
        /\ Len(temp) = BinRow(Len(y_bins) - 1)
        /\ \A i \in StepBinsOf : \A v \in 1..n_var(profile) :
              Overlapping(i) # {} =>
                  temp[BinRow(i)].w[v] = Q(CountedLength(ValidOverlapping(i, v), i), Width(i))

\* a bin that sections cover whole, one of them without a value of the property: the
\* weight is the part of the bin that holds a value
C2_Witness ==
    /\ pc = "done"
    /\ \E i \in StepBinsOf : \E v \in 1..n_var(profile) :
          /\ OverlapLength(Overlapping(i), i) = Width(i)
          /\ ValidOverlapping(i, v) # {}
          /\ ValidOverlapping(i, v) # Overlapping(i)
          /\ \A k \in Overlapping(i) : yx[k].c0 >= y_bins[i]
          /\ QLe(temp[BinRow(i)].w[v], Q(1, 2))

\* C3: every weight lies in [0, 1].
C3_WeightWithinUnitInterval ==
    pc = "done" =>
        \A j \in 1..Len(temp) : \A v \in 1..n_var(profile) :
            QLe(QInt(0), temp[j].w[v]) /\ QLe(temp[j].w[v], QInt(1))

\* the profile has no gap between its sections and no NaN among its values
GapFree(p) ==
    \A i \in 1..Len(p) :
        \/ Min(p[i].y_low, p[i].y_sup) = DerivedBins(p)[1]
        \/ \E j \in 1..Len(p) : Max(p[j].y_low, p[j].y_sup) = Min(p[i].y_low, p[i].y_sup)

NaNFree(p) == \A i \in 1..Len(p) : \A v \in 1..Len(p[i].x) : ~isnan(p[i].x[v])

\* C4: a profile of n >= 1 sections without gap nor NaN, resampled on its own
\* section boundaries, returns n rows: for each source section the row between its
\* two boundaries, with the values of the section and weights 1.
C4_OwnBoundariesReturnSource ==
    (StepReturned /\ GapFree(profile) /\ NaNFree(profile) /\ y_bins = DerivedBins(profile)) =>
        /\ pc = "done"
        /\ Len(temp) = Len(profile)
        /\ \A i \in 1..Len(profile) : \E j \in 1..Len(temp) :
              /\ temp[j].y_low = Min(profile[i].y_low, profile[i].y_sup)
              /\ temp[j].y_sup = Max(profile[i].y_low, profile[i].y_sup)
              /\ \A v \in 1..n_var(profile) :
                    temp[j].x[v] = profile[i].x[v] /\ temp[j].w[v] = QInt(1)

(***************************************************************************)
(* discretize_profile, continuous profile                                  *)
(***************************************************************************)
\* A row of a point profile is [y_mid, x]; yx and y2x hold such rows, the index
\* of the DataFrame being the field y_mid.
RECURSIVE InsertByYMid(_, _)
InsertByYMid(s, r) ==
    IF s = <<>> THEN <<r>>
    ELSE IF r.y_mid < Head(s).y_mid THEN <<r>> \o s
    ELSE <<Head(s)>> \o InsertByYMid(Tail(s), r)

\* sort_index() of the frame indexed by y_mid, and sort_values('y_mid')
RECURSIVE SortByYMid(_)
SortByYMid(s) ==
    IF s = <<>> THEN <<>>
    ELSE InsertByYMid(SortByYMid(SubSeq(s, 1, Len(s) - 1)), s[Len(s)])

RECURSIVE SortDepths(_)
SortDepths(s) ==
    IF s = <<>> THEN <<>>
    ELSE LET m == CHOOSE i \in 1..Len(s) : \A k \in 1..Len(s) : s[i] <= s[k]
         IN  <<s[m]>> \o SortDepths([k \in 1..(Len(s) - 1) |-> IF k < m THEN s[k] ELSE s[k + 1]])

\* y_mid = np.diff(y_bins) / 2 + y_bins[:-1]
MidOfBins(bins) == [i \in 1..(Len(bins) - 1) |-> (bins[i + 1] - bins[i]) \div 2 + bins[i]]

\* y_bins made of a given y_mid: half a step below the first depth (not below 0),
\* half-way between consecutive depths, half a step above the last
BinsOfMid(m) ==
    LET n     == Len(m)
        first == 2 * m[1] - (m[2] - m[1])
    IN  <<IF first < 0 THEN QInt(0) ELSE Q(first, 2)>>
        \o [i \in 1..(n - 1) |-> Q(2 * m[i] + (m[i + 1] - m[i]), 2)]
        \o <<Q(2 * m[n] + (m[n] - m[n - 1]), 2)>>

\* np.interp(y, yx.index, yx[_var], left=nan, right=nan) with a value to the left of
\* the first source depth in place of nan
interpClamped(y, s, v) ==
    LET n == Len(s)
        j == Cardinality({i \in 1..n : s[i].y_mid <= y})
    IN  IF j = 0 THEN s[1].x[v]
        ELSE IF y > s[n].y_mid THEN NaN
        ELSE IF j = n \/ s[j].y_mid = y THEN s[j].x[v]
        ELSE QAdd(QMul(QDiv(QSub(s[j + 1].x[v], s[j].x[v]),
                            QInt(s[j + 1].y_mid - s[j].y_mid)),
                       QInt(y - s[j].y_mid)),
                  s[j].x[v])

\* np.interp(y, yx.index, yx[_var], left=nan, right=nan): j is the last source depth
\* not above y
interp(y, s, v) ==
    LET n == Len(s)
        j == Cardinality({i \in 1..n : s[i].y_mid <= y})
    IN  IF j = 0 THEN NaN
        ELSE IF y > s[n].y_mid THEN NaN
        ELSE IF j = n \/ s[j].y_mid = y THEN s[j].x[v]
        ELSE QAdd(QMul(QDiv(QSub(s[j + 1].x[v], s[j].x[v]),
                            QInt(s[j + 1].y_mid - s[j].y_mid)),
                       QInt(y - s[j].y_mid)),
                  s[j].x[v])

\* x2 and y2x: one row per target depth
Interpolated(y2, s) ==
    [k \in 1..Len(y2) |->
        [y_mid |-> y2[k], x |-> [v \in 1..Len(s[1].x) |-> interp(y2[k], s, v)]]]

\* for index in yx.index: the rows of y2x within 1e-6 of the source depth take its values
RECURSIVE IndexLoop(_, _, _)
IndexLoop(rows, s, i) ==
    IF i > Len(s) THEN rows
    ELSE IndexLoop([k \in 1..Len(rows) |->
                       IF Abs(rows[k].y_mid - s[i].y_mid) < TOL
                       THEN [rows[k] EXCEPT !.x = s[i].x] ELSE rows[k]],
                   s, i + 1)

\* w: 1 within the source depths widened by TOL, 0 elsewhere
Weights(y2, s) ==
    [k \in 1..Len(y2) |->
        IF s[1].y_mid - TOL <= y2[k] /\ y2[k] <= s[Len(s)].y_mid + TOL THEN 1 ELSE 0]

\* any(abs(d - y2) < TOL)
AnyWithin(d, y2) == \E k \in 1..Len(y2) : Abs(d - y2[k]) < TOL

\* y2x.loc[d, _variables] = x: the rows labelled d take x; without such a row, one is added
SetLoc(rows, d, x) ==
    IF \E k \in 1..Len(rows) : rows[k].y_mid = d
    THEN [k \in 1..Len(rows) |-> IF rows[k].y_mid = d THEN [rows[k] EXCEPT !.x = x] ELSE rows[k]]
    ELSE Append(rows, [y_mid |-> d, x |-> x])

\* the source extremum d, held by row i of yx, added to y2x and a weight 0 to w
Extremum(st, s, i, y2) ==
    IF AnyWithin(s[i].y_mid, y2) THEN st
    ELSE [rows |-> SetLoc(st.rows, s[i].y_mid, s[i].x), w |-> Append(st.w, 0)]

\* temp: the rows of y2x, each with the weight at its position, sorted by y_mid
WeightedRows(rows, ws) ==
    SortByYMid([k \in 1..Len(rows) |->
                   [y_mid |-> rows[k].y_mid, x |-> rows[k].x, weight |-> ws[k]]])

\* discretize_profile(profile, y_bins=bins, y_mid=mid) on a point profile of one
\* variable group, up to the values at the target depths: y_mid and y_bins, yx
\* sorted by depth, the interpolation and the values of the matching source depths
ContinuousValues(bins, mid) ==
    /\ pc = "start"
    /\ is_continuous(profile)
    /\ bins = <<>> \/ mid = <<>>
    /\ LET y2 == IF bins # <<>> THEN MidOfBins(bins)
                 ELSE IF mid # <<>> THEN SortDepths(mid)
                 ELSE unique([i \in 1..Len(profile) |-> profile[i].y_mid])
           s  == SortByYMid(profile)
       IN  /\ y_mid' = y2
           /\ y_bins' = IF bins # <<>> THEN bins ELSE IF mid # <<>> THEN BinsOfMid(y2) ELSE <<>>
           /\ yx' = s
           /\ y2x' = IndexLoop(Interpolated(y2, s), s, 1)
    /\ pc' = "weights"
    /\ UNCHANGED <<profile, v_ref, fill_gap, fill_extremity, x_step, w_step, y_step, w, temp,
                   new_v_ref, h_ref, inplace, new_profile,
                   unique_variable, same_object, provided,
                   criteria, variables2del, profile_target, profile_new>>

\* the weights, the source extrema and the rows of the result; the Series of the
\* weights raises ValueError unless there is one weight per row
ContinuousWeights ==
    /\ pc = "weights"
    /\ LET st0 == [rows |-> y2x, w |-> Weights(y_mid, yx)]
           st1 == Extremum(st0, yx, 1, y_mid)
           st2 == Extremum(st1, yx, Len(yx), y_mid)
       IN  /\ y2x' = st2.rows
           /\ w' = st2.w
           /\ IF Len(st2.w) = Len(st2.rows)
              THEN pc' = "done" /\ temp' = WeightedRows(st2.rows, st2.w)
              ELSE pc' = "ValueError" /\ temp' = <<>>
    /\ UNCHANGED <<profile, v_ref, y_bins, y_mid, fill_gap, fill_extremity, yx, x_step, w_step,
                   y_step, new_v_ref, h_ref, inplace, new_profile,
                   unique_variable, same_object, provided,
                   criteria, variables2del, profile_target, profile_new>>

(***************************************************************************)
(* The point profiles and the target depths of the model                   *)
(***************************************************************************)
MaxPoints == 2     \* points of a source profile
MaxTargets == 3    \* depths of a given y_mid

\* source depths: 10 and 11 lie within TOL of each other
SourceDepths == {10, 11, 20, 30}

\* target depths: within TOL of a source depth, at TOL from it, beyond, between two
TargetDepths == {7, 8, 9, 10, 15, 19, 21, 22, 23}

\* target bin edges, whose midpoints are whole ticks
TargetEdges == {6, 10, 14, 26}

PointValues == {<<QInt(5)>>, <<QInt(7)>>, <<NaN>>}

AscendingPoints ==
    UNION {{[i \in 1..Len(SetToSortedSeq(D)) |->
                [y_mid |-> SetToSortedSeq(D)[i], x |-> f[SetToSortedSeq(D)[i]]]] :
            f \in [D -> PointValues]} :
           D \in {E \in SUBSET SourceDepths : Cardinality(E) \in 1..MaxPoints}}

\* the rows of a point profile in the order of their depth, or in the opposite order
PointProfiles == AscendingPoints \cup {Reverse(p) : p \in AscendingPoints}

AscendingMids ==
    {SetToSortedSeq(T) : T \in {U \in SUBSET TargetDepths : Cardinality(U) \in 2..MaxTargets}}

AscendingEdges ==
    {SetToSortedSeq(T) : T \in {U \in SUBSET TargetEdges : Cardinality(U) \in 2..(MaxBins + 1)}}

\* the pairs (y_bins, y_mid) of a call: both None, y_mid alone, y_bins alone
ContinuousArguments ==
    {<<(<<>>), (<<>>)>>}
    \cup {<<(<<>>), m>> : m \in AscendingMids \cup {Reverse(m) : m \in AscendingMids}}
    \cup {<<b, (<<>>)>> : b \in AscendingEdges \cup {Reverse(b) : b \in AscendingEdges}}

ContinuousInit ==
    /\ pc = "start"
    /\ profile \in PointProfiles
    /\ v_ref \in {"top", "bottom"}
    /\ y_bins = <<>>
    /\ y_mid = <<>>
    /\ fill_gap = FALSE
    /\ fill_extremity = FALSE
    /\ yx = <<>>
    /\ x_step = <<>>
    /\ w_step = <<>>
    /\ y_step = <<>>
    /\ y2x = <<>>
    /\ w = <<>>
    /\ temp = <<>>
    /\ new_v_ref = "None"
    /\ h_ref = <<>>
    /\ inplace = FALSE
    /\ new_profile = <<>>
    /\ unique_variable = <<>>
    /\ same_object = FALSE
    /\ provided = profile
    /\ criteria = <<>>
    /\ variables2del = <<>>
    /\ profile_target = <<>>
    /\ profile_new = <<>>

ContinuousNext ==
    \/ \E a \in ContinuousArguments : ContinuousValues(a[1], a[2])
    \/ ContinuousWeights

SpecContinuous == ContinuousInit /\ [][ContinuousNext]_vars

(***************************************************************************)
(* Continuous resampling: what the claims speak of                         *)
(***************************************************************************)
\* the source depths within 1e-6 of the depth y
Matching(y) == {i \in 1..Len(yx) : Abs(y - yx[i].y_mid) < TOL}

\* the straight line through the source points i and i + 1, at the depth y
Linear(i, y, v) ==
    QDiv(QAdd(QMul(yx[i].x[v], QInt(yx[i + 1].y_mid - y)),
              QMul(yx[i + 1].x[v], QInt(y - yx[i].y_mid))),
         QInt(yx[i + 1].y_mid - yx[i].y_mid))

\* the value of property v that the claim gives the target depth y: that of the source
\* depth it matches (of the deepest one when it matches several), else the line
\* between its two neighbours, else NaN
Resampled(y, v) ==
    IF Matching(y) # {}
    THEN yx[CHOOSE i \in Matching(y) : \A k \in Matching(y) : k <= i].x[v]
    ELSE IF \E i \in 1..(Len(yx) - 1) : yx[i].y_mid < y /\ y < yx[i + 1].y_mid
    THEN Linear(CHOOSE i \in 1..(Len(yx) - 1) : yx[i].y_mid < y /\ y < yx[i + 1].y_mid, y, v)
    ELSE NaN

\* C5: each target depth of a continuous resampling holds, for each property, the
\* value of the source depth it matches within 1e-6, else the linear interpolation of
\* its two neighbouring source points when it lies between them, else (outside the
\* source depths) NaN: no value is extrapolated.  It holds of y2x once the values
\* are computed and of the rows of the result.
C5_ContinuousValueIsSourceOrInterpolated ==
    /\ (pc = "weights" /\ is_continuous(profile)) =>
          /\ Len(y2x) = Len(y_mid)
          /\ \A k \in 1..Len(y_mid) : \A v \in 1..n_var(profile) :
                y2x[k].y_mid = y_mid[k] /\ y2x[k].x[v] = Resampled(y_mid[k], v)
    /\ (pc = "done" /\ is_continuous(profile)) =>
          \A k \in 1..Len(y_mid) : \E j \in 1..Len(temp) :
              /\ temp[j].y_mid = y_mid[k]
              /\ \A v \in 1..n_var(profile) : temp[j].x[v] = Resampled(y_mid[k], v)

\* source points (10, 5), (20, 7) resampled at 9, 15 and 23: the value 5 of the source
\* depth within 1e-6 of 9, the interpolated 6, and NaN beyond the last source depth
C5_Witness ==
    /\ pc = "done"
    /\ is_continuous(profile)
    /\ Len(yx) = 2
    /\ yx[1].y_mid = 10 /\ yx[1].x[1] = QInt(5)
    /\ yx[2].y_mid = 20 /\ yx[2].x[1] = QInt(7)
    /\ y_mid = <<9, 15, 23>>
    /\ \E i, j, k \in 1..Len(temp) :
          /\ temp[i].y_mid = 9 /\ temp[i].x[1] = QInt(5)
          /\ temp[j].y_mid = 15 /\ temp[j].x[1] = QInt(6)
          /\ temp[k].y_mid = 23 /\ isnan(temp[k].x[1])

\* the source extrema that no target depth lies within TOL of
Unmatched == {d \in {yx[1].y_mid, yx[Len(yx)].y_mid} : ~AnyWithin(d, y_mid)}

\* C6: a continuous resampling returns one row per target depth, of weight 1 when
\* min(source) - TOL <= y <= max(source) + TOL and of weight 0 otherwise, and one more
\* row, with the source value and weight 0, for each of the source minimum and maximum
\* that lies within TOL of no target depth; the rows are sorted by y_mid.
C6_ContinuousWeightsAndExtrema ==
    (pc \in {"done", "ValueError"} /\ is_continuous(profile)) =>
        /\ pc = "done"
        /\ Len(temp) = Len(y_mid) + Cardinality(Unmatched)
        /\ \A j \in 1..(Len(temp) - 1) : temp[j].y_mid <= temp[j + 1].y_mid
        /\ \A k \in 1..Len(y_mid) : \E j \in 1..Len(temp) :
              /\ temp[j].y_mid = y_mid[k]
              /\ temp[j].weight =
                    IF yx[1].y_mid - TOL <= y_mid[k] /\ y_mid[k] <= yx[Len(yx)].y_mid + TOL
                    THEN 1 ELSE 0
        /\ \A d \in Unmatched : \E j \in 1..Len(temp), i \in 1..Len(yx) :
              /\ temp[j].y_mid = d
              /\ yx[i].y_mid = d
              /\ temp[j].x = yx[i].x
              /\ temp[j].weight = 0

(***************************************************************************)
(* Profile.set_vertical_reference, set_profile_orientation, delete_profile *)
(***************************************************************************)
\* A row of a profile is here [index, variable, v_ref, y_low, y_mid, y_sup,
\* ice_thickness, length]: index is its label in the DataFrame, ice_thickness and
\* length are <<>> when null and <<l>> when they hold l.

\* ics_stack.keys(): the columns of a stack, which its index is not one of
keys(ics_stack) == IF ics_stack = <<>> THEN {} ELSE (DOMAIN ics_stack[1]) \ {"index"}

\* ics_stack.loc[(ics_stack.k1 != v1) | (ics_stack.k2 != v2) | ...] over the keys of
\* variable_dict that are columns of ics_stack, with every row kept
keep_profile(ics_stack, variable_dict) == ics_stack

\* ics_stack.loc[(ics_stack.k1 != v1) | (ics_stack.k2 != v2) | ...] over the keys of
\* variable_dict that are columns of ics_stack: a new object
delete_profile(ics_stack, variable_dict) ==
    SelectSeq(ics_stack,
              LAMBDA r : \E k \in (DOMAIN variable_dict) \cap keys(ics_stack) :
                            r[k] # variable_dict[k])

\* Series.unique(): the distinct values in the order of their first appearance
RECURSIVE Distinct(_)
Distinct(s) ==
    IF s = <<>> THEN <<>>
    ELSE LET d == Distinct(SubSeq(s, 1, Len(s) - 1))
         IN  IF \E i \in 1..Len(d) : d[i] = s[Len(s)] THEN d ELSE Append(d, s[Len(s)])

\* profile[profile.variable == variable]
Group(p, variable) == SelectSeq(p, LAMBDA r : r.variable = variable)

\* lc: the first ice_thickness of the group that is not null, else its first length
\* that is not null, else None (<<>>)
CoreLength(p, variable) ==
    LET g         == Group(p, variable)
        thickness == Distinct(SelectSeq([i \in 1..Len(g) |-> g[i].ice_thickness],
                                        LAMBDA t : t # <<>>))
        length    == Distinct(SelectSeq([i \in 1..Len(g) |-> g[i].length], LAMBDA t : t # <<>>))
    IN  IF thickness # <<>> THEN thickness[1]
        ELSE IF length # <<>> THEN length[1]
        ELSE <<>>

\* profile.update(new_df) with the two edges of each section of the group exchanged as
\* well: y_low = lc - y_sup and y_sup = lc - y_low
ReorientedExchanged(p, variable, lc) ==
    [i \in 1..Len(p) |->
        IF p[i].variable = variable
        THEN [p[i] EXCEPT !.y_low = lc - p[i].y_sup, !.y_mid = lc - @, !.y_sup = lc - p[i].y_low,
                          !.v_ref = "bottom"]
        ELSE p[i]]

\* profile.update(new_df): the rows of the group take lc - y_low, lc - y_mid, lc - y_sup
\* and the reference 'bottom'
Reoriented(p, variable, lc) ==
    [i \in 1..Len(p) |->
        IF p[i].variable = variable
        THEN [p[i] EXCEPT !.y_low = lc - @, !.y_mid = lc - @, !.y_sup = lc - @,
                          !.v_ref = "bottom"]
        ELSE p[i]]

\* new_profile.update(new_df): h_ref taken off the three depths of every row
Referenced(p, h) ==
    [i \in 1..Len(p) |-> [p[i] EXCEPT !.y_low = @ - h, !.y_mid = @ - h, !.y_sup = @ - h]]

\* profile.set_vertical_reference(h_ref=h, new_v_ref=ref, inplace=inp), up to the loop
\* of set_profile_orientation: the reference asked for, and the object worked on, which
\* is the caller's or a copy of it
set_vertical_reference(h, ref, inp) ==
    /\ pc = "start"
    /\ h_ref' = h
    /\ new_v_ref' = IF ref # "None" THEN ref
                    ELSE IF Len(Distinct([i \in 1..Len(profile) |-> profile[i].v_ref])) > 1
                    THEN "None"
                    ELSE profile[1].v_ref
    /\ inplace' = inp
    /\ same_object' = inp
    /\ new_profile' = profile
    /\ unique_variable' = Distinct([i \in 1..Len(profile) |-> profile[i].variable])
    /\ pc' = "orient"
    /\ UNCHANGED <<profile, v_ref, y_bins, y_mid, fill_gap, fill_extremity, yx, x_step, w_step,
                   y_step, y2x, w, temp, provided,
                   criteria, variables2del, profile_target, profile_new>>

\* one turn of the loop of set_profile_orientation: the group is left as it is, or
\* deleted, which binds the name profile to a new object, or reoriented in the object
\* the name is bound to
set_profile_orientation ==
    /\ pc = "orient"
    /\ unique_variable # <<>>
    /\ LET variable == Head(unique_variable)
           lc       == CoreLength(new_profile, variable)
       IN  IF Group(new_profile, variable)[1].v_ref = new_v_ref
           THEN UNCHANGED <<profile, new_profile, same_object>>
           ELSE IF lc = <<>>
           THEN /\ new_profile' = delete_profile(new_profile, [variable |-> variable])
                /\ same_object' = FALSE
                /\ UNCHANGED profile
           ELSE /\ new_profile' = Reoriented(new_profile, variable, lc[1])
                /\ profile' = IF same_object THEN new_profile' ELSE profile
                /\ UNCHANGED same_object
    /\ unique_variable' = Tail(unique_variable)
    /\ UNCHANGED <<pc, v_ref, y_bins, y_mid, fill_gap, fill_extremity, yx, x_step, w_step,
                   y_step, y2x, w, temp, new_v_ref, h_ref, inplace, provided,
                   criteria, variables2del, profile_target, profile_new>>

\* the end of the loop, and h_ref taken off the depths of the profile returned
Return ==
    /\ pc = "orient"
    /\ unique_variable = <<>>
    /\ new_profile' = IF h_ref = <<>> THEN new_profile ELSE Referenced(new_profile, h_ref[1])
    /\ profile' = IF same_object THEN new_profile' ELSE profile
    /\ pc' = "done"
    /\ UNCHANGED <<v_ref, y_bins, y_mid, fill_gap, fill_extremity, yx, x_step, w_step,
                   y_step, y2x, w, temp, new_v_ref, h_ref, inplace, unique_variable,
                   same_object, provided,
                   criteria, variables2del, profile_target, profile_new>>

(***************************************************************************)
(* The profiles of the model, made of variable groups                      *)
(***************************************************************************)
MaxGroups == 2    \* variable groups of a profile

VariableNames == <<"salinity", "temperature", "density">>

\* the sections (y_low, y_mid, y_sup) of a group, from the top
GroupLayouts == {<<(<<0, 2, 4>>)>>, <<(<<0, 2, 4>>), (<<4, 7, 10>>)>>}

\* what a group is made of: its reference, whether its depths were turned to the bottom
\* before (new = 24 - old), its ice_thickness and its length, its sections
GroupChoices ==
    {c \in [ref : {"top", "bottom"}, turned : BOOLEAN, ice_thickness : {<<>>, <<20>>},
            length : {<<>>, <<24>>}, layout : GroupLayouts] :
        c.turned => c.ref = "bottom"}

GroupRows(name, c) ==
    [i \in 1..Len(c.layout) |->
        [variable |-> name, v_ref |-> c.ref,
         y_low |-> IF c.turned THEN 24 - c.layout[i][1] ELSE c.layout[i][1],
         y_mid |-> IF c.turned THEN 24 - c.layout[i][2] ELSE c.layout[i][2],
         y_sup |-> IF c.turned THEN 24 - c.layout[i][3] ELSE c.layout[i][3],
         ice_thickness |-> c.ice_thickness, length |-> c.length]]

RECURSIVE Concat(_, _)
Concat(f, n) == IF n = 0 THEN <<>> ELSE Concat(f, n - 1) \o GroupRows(VariableNames[n], f[n])

\* the index of a DataFrame: the labels 1, 2, ... in the order of the rows
Indexed(s) ==
    [i \in 1..Len(s) |->
        [index |-> i, variable |-> s[i].variable, v_ref |-> s[i].v_ref, y_low |-> s[i].y_low,
         y_mid |-> s[i].y_mid, y_sup |-> s[i].y_sup, ice_thickness |-> s[i].ice_thickness,
         length |-> s[i].length]]

GroupProfiles ==
    UNION {{Indexed(Concat(f, n)) : f \in [1..n -> GroupChoices]} :
           n \in 1..Min(MaxGroups, Len(VariableNames))}

OrientationInit ==
    /\ pc = "start"
    /\ profile \in GroupProfiles
    /\ v_ref = profile[1].v_ref
    /\ y_bins = <<>>
    /\ y_mid = <<>>
    /\ fill_gap = FALSE
    /\ fill_extremity = FALSE
    /\ yx = <<>>
    /\ x_step = <<>>
    /\ w_step = <<>>
    /\ y_step = <<>>
    /\ y2x = <<>>
    /\ w = <<>>
    /\ temp = <<>>
    /\ new_v_ref = "None"
    /\ h_ref = <<>>
    /\ inplace = FALSE
    /\ new_profile = <<>>
    /\ unique_variable = <<>>
    /\ same_object = FALSE
    /\ provided = profile
    /\ criteria = <<>>
    /\ variables2del = <<>>
    /\ profile_target = <<>>
    /\ profile_new = <<>>

OrientationNext ==
    \/ \E h \in {<<>>, <<2>>}, ref \in {"top", "bottom", "None"}, inp \in BOOLEAN :
          set_vertical_reference(h, ref, inp)
    \/ set_profile_orientation
    \/ Return

SpecOrientation == OrientationInit /\ [][OrientationNext]_vars

(***************************************************************************)
(* Vertical reference: what the claims speak of                            *)
(***************************************************************************)
\* the row of the profile p labelled as the row r, in a set: empty when p has none
Labelled(p, r) == {j \in 1..Len(p) : p[j].index = r.index}

\* the group of the provided row r had to be reoriented, and had a core length to be
\* reoriented with
MustTurn(r) == r.v_ref # new_v_ref

Known(r) == CoreLength(provided, r.variable) # <<>>

\* C7, as claimed: after a call without h_ref that asks for 'top' or for 'bottom',
\* every row of a group whose reference differed and whose core length is known has
\* y_low, y_mid and y_sup equal to length - old value and the reference asked for;
\* every row of a group already at the reference asked for is as it was.
C7_ReorientedToRequestedReference ==
    (pc = "done" /\ unique_variable = <<>> /\ h_ref = <<>> /\ new_v_ref \in {"top", "bottom"}
        /\ provided # <<>> /\ "index" \in DOMAIN provided[1]) =>
        \A i \in 1..Len(provided) :
            LET r  == provided[i]
                lc == CoreLength(provided, r.variable)
            IN  IF ~MustTurn(r)
                THEN \E j \in Labelled(new_profile, r) : new_profile[j] = r
                ELSE Known(r) =>
                        \E j \in Labelled(new_profile, r) :
                            /\ new_profile[j].y_low = lc[1] - r.y_low
                            /\ new_profile[j].y_mid = lc[1] - r.y_mid
                            /\ new_profile[j].y_sup = lc[1] - r.y_sup
                            /\ new_profile[j].v_ref = new_v_ref

\* every row of the profile has a y_low smaller than its y_sup
Upright(p) == \A i \in 1..Len(p) : p[i].y_low < p[i].y_sup

\* C8, as claimed: after the orientation of a profile whose rows all have
\* y_low < y_sup, every row of the result has y_low < y_sup.
C8_SectionsStayUpright ==
    (pc = "done" /\ "index" \in DOMAIN provided[1] /\ Upright(provided)) => Upright(new_profile)

\* C8, amended: after the orientation of a profile whose rows all have y_low < y_sup,
\* the rows of the groups that were reoriented have y_low > y_sup, new = length - old
\* having exchanged the order of the two edges, and the rows of the groups that were
\* already at the reference asked for have y_low < y_sup.
C8_ReorientedSectionsAreExchanged ==
    (pc = "done" /\ "index" \in DOMAIN provided[1] /\ Upright(provided)) =>
        \A j \in 1..Len(new_profile) : \E i \in 1..Len(provided) :
            /\ provided[i].index = new_profile[j].index
            /\ IF MustTurn(provided[i])
               THEN new_profile[j].y_low > new_profile[j].y_sup
               ELSE new_profile[j].y_low < new_profile[j].y_sup

\* a profile of upright sections, one group of which was reoriented and one left
C8_Witness ==
    /\ pc = "done"
    /\ "index" \in DOMAIN provided[1]
    /\ Upright(provided)
    /\ \E j, k \in 1..Len(new_profile) :
          /\ new_profile[j].y_low > new_profile[j].y_sup
          /\ new_profile[k].y_low < new_profile[k].y_sup

\* C9: when a group must be reoriented and has neither ice_thickness nor length, the
\* profile returned holds no row of it, and holds every row of every other group; the
\* call returns.
C9_GroupWithoutLengthIsDeleted ==
    (pc = "done" /\ "index" \in DOMAIN provided[1]) =>
        /\ \A i \in 1..Len(provided) :
              IF MustTurn(provided[i]) /\ ~Known(provided[i])
              THEN \A j \in 1..Len(new_profile) : new_profile[j].variable # provided[i].variable
              ELSE Cardinality(Labelled(new_profile, provided[i])) = 1
        /\ \A j \in 1..Len(new_profile) : \E i \in 1..Len(provided) :
              /\ provided[i].index = new_profile[j].index
              /\ provided[i].variable = new_profile[j].variable

\* a call that deleted one group and returned the rows of another
C9_Witness ==
    /\ pc = "done"
    /\ "index" \in DOMAIN provided[1]
    /\ new_profile # <<>>
    /\ \E i \in 1..Len(provided) : MustTurn(provided[i]) /\ ~Known(provided[i])

\* C10, as claimed: with inplace=False the provided profile is after the call as it
\* was before and the profile returned is another object; with inplace=True the
\* provided profile holds after the call the rows of the profile returned, also when
\* a group was deleted.
C10_InplaceIsHonoured ==
    (pc = "done" /\ "index" \in DOMAIN provided[1]) =>
        IF inplace THEN profile = new_profile
        ELSE profile = provided /\ ~same_object

(***************************************************************************)
(* delete_profile called on a stack                                        *)
(***************************************************************************)
\* the keys of variable_dict that str_select names: those that are columns of ics_stack
Selecting(ics_stack, variable_dict) == (DOMAIN variable_dict) \cap keys(ics_stack)

\* delete_profile(profile, dict): eval(str_select) raises SyntaxError when str_select
\* names no key, '(' cut by four characters being the empty string
DeleteProfile(dict) ==
    /\ pc = "start"
    /\ criteria' = dict
    /\ IF Selecting(profile, dict) = {}
       THEN pc' = "SyntaxError" /\ UNCHANGED new_profile
       ELSE pc' = "done" /\ new_profile' = delete_profile(profile, dict)
    /\ UNCHANGED <<profile, v_ref, y_bins, y_mid, fill_gap, fill_extremity, yx, x_step, w_step,
                   y_step, y2x, w, temp, new_v_ref, h_ref, inplace, unique_variable,
                   same_object, provided, variables2del, profile_target, profile_new>>

\* the values a criterion can ask of each key; the stacks of the model have no column name
CriterionValues ==
    [variable |-> {"salinity", "temperature"}, v_ref |-> {"top", "bottom"}, name |-> {"core1"}]

\* the dictionaries of criteria, the empty one among them
Criteria ==
    UNION {{d \in [K -> {"salinity", "temperature", "top", "bottom", "core1"}] :
               \A k \in K : d[k] \in CriterionValues[k]} :
           K \in SUBSET DOMAIN CriterionValues}

DeleteProfileNext == \E dict \in Criteria : DeleteProfile(dict)

SpecDeleteProfile == OrientationInit /\ [][DeleteProfileNext]_vars

\* the criteria of the call that are columns of the stack, and the rows that differ
\* from at least one of them
Applicable == {k \in DOMAIN criteria : k \in DOMAIN provided[1] /\ k # "index"}

Differing == SelectSeq(provided, LAMBDA r : \E k \in Applicable : r[k] # criteria[k])

\* C11: delete_profile returns exactly the rows that differ from the criteria in the
\* value of at least one key that is a column of the stack, each as it was, and so
\* removes the rows that match every such criterion.
C11_DeleteKeepsRowsDifferingInAnyKey ==
    (pc \in {"done", "SyntaxError"}) =>
        /\ pc = "done"
        /\ new_profile = Differing
        /\ profile = provided

(***************************************************************************)
(* delete_variables                                                        *)
(***************************************************************************)
\* A row of a stack is here a record of its columns: index, variable, and one column
\* per property of any group (NaN in the rows of the groups without it).  The tag
\* variable is held split at ', ': a sequence of names, the empty string being <<"">>.
subvariable_dict == [conductivity |-> <<"conductivity measurement temperature">>]

\* group.split(', ')
split(group) == group

\* ', '.join(new_group)
join(new_group) == IF new_group = <<>> THEN <<"">> ELSE new_group

\* new_group.remove(variable): without the first of its occurrences
RECURSIVE remove(_, _)
remove(new_group, variable) ==
    IF new_group = <<>> THEN <<>>
    ELSE IF Head(new_group) = variable THEN Tail(new_group)
    ELSE <<Head(new_group)>> \o remove(Tail(new_group), variable)

IsIn(x, list) == \E i \in 1..Len(list) : list[i] = x

RECURSIVE Flatten(_)
Flatten(lists) == IF lists = <<>> THEN <<>> ELSE Head(lists) \o Flatten(Tail(lists))

\* Profile.get_property (get_variable): the names of the tags of the distinct groups
get_property(stack) ==
    Flatten([i \in 1..Len(Distinct([j \in 1..Len(stack) |-> stack[j].variable])) |->
                split(Distinct([j \in 1..Len(stack) |-> stack[j].variable])[i])])

\* ics_stack.drop(column, axis=1, inplace=True)
drop(stack, column) ==
    [i \in 1..Len(stack) |-> [k \in (DOMAIN stack[i]) \ {column} |-> stack[i][k]]]

RECURSIVE DropAll(_, _)
DropAll(stack, columns) ==
    IF columns = <<>> THEN stack ELSE DropAll(drop(stack, Head(columns)), Tail(columns))

\* the column of the variable and those of its subvariables dropped, when the variable
\* is a column and a property of the stack
DropVariable(stack, variable) ==
    IF variable \in keys(stack) /\ IsIn(variable, get_property(stack))
    THEN DropAll(drop(stack, variable),
                 IF variable \in DOMAIN subvariable_dict THEN subvariable_dict[variable] ELSE <<>>)
    ELSE stack

\* ics_stack['variable'] = tag: the tag of every row
SetVariable(stack, tag) == [i \in 1..Len(stack) |-> [stack[i] EXCEPT !.variable = tag]]

\* for group in ics_stack.variable.unique(): the groups are those the stack had when the
\* loop began; each one that holds the variable gives the whole column its tag without it
RECURSIVE GroupLoop(_, _, _)
GroupLoop(stack, groups, variable) ==
    IF groups = <<>> THEN stack
    ELSE GroupLoop(
             IF IsIn(variable, split(Head(groups)))
             THEN SetVariable(stack, join(remove(split(Head(groups)), variable)))
             ELSE stack,
             Tail(groups), variable)

\* for variable in variables2del
RECURSIVE VariableLoop(_, _)
VariableLoop(stack, list) ==
    IF list = <<>> THEN stack
    ELSE LET dropped == DropVariable(stack, Head(list))
         IN  VariableLoop(GroupLoop(dropped,
                                    Distinct([j \in 1..Len(dropped) |-> dropped[j].variable]),
                                    Head(list)),
                          Tail(list))

\* delete_variables(profile, list): the stack provided is changed and returned; the
\* dropna that ends it is not in place and its result is not kept
delete_variables(list) ==
    /\ pc = "start"
    /\ variables2del' = list
    /\ profile' = VariableLoop(profile, list)
    /\ new_profile' = profile'
    /\ same_object' = TRUE
    /\ pc' = "done"
    /\ UNCHANGED <<v_ref, y_bins, y_mid, fill_gap, fill_extremity, yx, x_step, w_step, y_step,
                   y2x, w, temp, new_v_ref, h_ref, inplace, unique_variable, provided,
                   criteria, profile_target, profile_new>>

(***************************************************************************)
(* The stacks of the model, made of groups of properties                   *)
(***************************************************************************)
PropertyNames == {"salinity", "temperature", "conductivity"}

\* the tags of the groups: one property, or two
Tags ==
    {<<a>> : a \in PropertyNames}
    \cup {t \in PropertyNames \X PropertyNames : t[1] # t[2]}

\* the columns of a stack whose groups have the tags g
StackColumns(g) ==
    {"index", "variable"} \cup UNION {{g[i][j] : j \in 1..Len(g[i])} : i \in 1..Len(g)} \cup
    (IF \E i \in 1..Len(g) : IsIn("conductivity", g[i])
     THEN {subvariable_dict["conductivity"][1]} ELSE {})

\* rows i + 1 to i + n of a stack: those of one group
StackRows(g, tag, i, n) ==
    [j \in 1..n |->
        [k \in StackColumns(g) |->
            IF k = "index" THEN i + j
            ELSE IF k = "variable" THEN tag
            ELSE IF IsIn(k, tag) THEN QInt(5)
            ELSE NaN]]

RECURSIVE StackOf(_, _, _)
StackOf(g, rows, n) ==
    IF n = 0 THEN <<>>
    ELSE LET before == StackOf(g, rows, n - 1)
         IN  before \o StackRows(g, g[n], Len(before), rows[n])

\* stacks of one group or more, of distinct tags, each of one row or two
Stacks ==
    UNION {{StackOf(g, rows, n) : g \in {h \in [1..n -> Tags] :
                                              \A i, j \in 1..n : i # j => h[i] # h[j]},
                                  rows \in [1..n -> 1..2]} :
           n \in 1..MaxGroups}

\* the lists of variables to delete: one name or two, density being in no stack
Variables2del ==
    {<<a>> : a \in PropertyNames \cup {"density"}}
    \cup {t \in (PropertyNames \cup {"density"}) \X PropertyNames : t[1] # t[2]}

DeleteVariablesInit ==
    /\ pc = "start"
    /\ profile \in Stacks
    /\ v_ref = "top"
    /\ y_bins = <<>>
    /\ y_mid = <<>>
    /\ fill_gap = FALSE
    /\ fill_extremity = FALSE
    /\ yx = <<>>
    /\ x_step = <<>>
    /\ w_step = <<>>
    /\ y_step = <<>>
    /\ y2x = <<>>
    /\ w = <<>>
    /\ temp = <<>>
    /\ new_v_ref = "None"
    /\ h_ref = <<>>
    /\ inplace = FALSE
    /\ new_profile = <<>>
    /\ unique_variable = <<>>
    /\ same_object = FALSE
    /\ provided = profile
    /\ criteria = <<>>
    /\ variables2del = <<>>
    /\ profile_target = <<>>
    /\ profile_new = <<>>

DeleteVariablesNext == \E list \in Variables2del : delete_variables(list)

SpecDeleteVariables == DeleteVariablesInit /\ [][DeleteVariablesNext]_vars

\* the tag left of a tag once the variables of the list are removed from it
RECURSIVE Without(_, _)
Without(tag, list) ==
    IF list = <<>> THEN tag
    ELSE Without(IF IsIn(Head(list), tag) THEN join(remove(tag, Head(list))) ELSE tag, Tail(list))

\* C12: after delete_variables on a stack of several distinct groups, the tag of every
\* row is the tag its own group had before the call without the variables deleted: not
\* the tag of another group, and its own tag when its group held none of them.
C12_EachGroupKeepsItsOwnTag ==
    (pc = "done" /\ Len(Distinct([i \in 1..Len(provided) |-> provided[i].variable])) > 1) =>
        /\ Len(profile) = Len(provided)
        /\ \A i \in 1..Len(provided) :
              profile[i].variable = Without(provided[i].variable, variables2del)

(***************************************************************************)
(* The empty profile: what the claim speaks of                             *)
(***************************************************************************)
\* C13: discretize_profile on an empty profile raises no exception and returns an empty
\* result.
C13_EmptyProfileIsNoOp ==
    (provided = <<>> /\ pc # "start") => (pc = "done" /\ temp = <<>>)

(***************************************************************************)
(* The boundaries of the emitted sections: what the claim speaks of        *)
(***************************************************************************)
\* the lowest y_low and the highest y_sup of the source sections
Lowest == yx[CHOOSE i \in 1..Len(yx) : \A k \in 1..Len(yx) : yx[i].c0 <= yx[k].c0].c0

Highest == yx[CHOOSE i \in 1..Len(yx) : \A k \in 1..Len(yx) : yx[i].c1 >= yx[k].c1].c1

\* C14: without fill_extremity every section of the result lies within the extent of the
\* source sections, its y_low not below their lowest y_low and its y_sup not above their
\* highest y_sup (within TOL), whatever the target bins; with fill_extremity the
\* boundaries of every section of the result are those of a target bin.
C14_EmittedSectionsWithinSourceExtent ==
    (pc = "done" /\ provided # <<>> /\ ~is_continuous(provided)) =>
        \A j \in 1..Len(temp) :
            IF fill_extremity
            THEN \E i \in StepBinsOf : temp[j].y_low = y_bins[i] /\ temp[j].y_sup = y_bins[i + 1]
            ELSE temp[j].y_low >= Lowest - TOL /\ temp[j].y_sup <= Highest + TOL

(***************************************************************************)
(* The filling of the gaps: what the claim speaks of                       *)
(***************************************************************************)
\* the sections with the inserted empty sections, before any value is filled
Unfilled == InsertGaps(StepColumns(profile, v_ref))

\* the nearest section below and above section i with a value of property v, 0 if none
ValidBelow(i, v) ==
    LET J == {j \in 1..(i - 1) : ~isnan(Unfilled[j].x[v])}
    IN  IF J = {} THEN 0 ELSE CHOOSE j \in J : \A k \in J : k <= j

ValidAbove(i, v) ==
    LET J == {j \in (i + 1)..Len(Unfilled) : ~isnan(Unfilled[j].x[v])}
    IN  IF J = {} THEN 0 ELSE CHOOSE j \in J : \A k \in J : j <= k

\* v_prev + (mid - y_sup_prev) / (y_low_next - y_sup_prev) * (v_next - v_prev)
Between(i, v) ==
    LET prev == Unfilled[ValidBelow(i, v)]
        next == Unfilled[ValidAbove(i, v)]
        mid == Q(Unfilled[i].c0 + Unfilled[i].c1, 2)
    IN  QAdd(prev.x[v], QMul(QDiv(QSub(mid, QInt(prev.c1)), QInt(next.c0 - prev.c1)),
                             QSub(next.x[v], prev.x[v])))

FilledAsClaimed(i, v) ==
    IF ~isnan(Unfilled[i].x[v]) THEN yx[i].x[v] = Unfilled[i].x[v]
    ELSE IF ValidBelow(i, v) = 0 \/ ValidAbove(i, v) = 0 THEN isnan(yx[i].x[v])
    ELSE QEq(yx[i].x[v], Between(i, v))

\* C15: with fill_gap, for every property of the profile, a section without value that
\* has a section with a value on both sides takes the value interpolated linearly at its
\* midpoint between the two neighbouring values, a section without a value on one side
\* stays without value, and the sections with a value keep it.
C15_GapsAreFilledForEachProperty ==
    (pc = "bins" /\ fill_gap) =>
        /\ Len(yx) = Len(Unfilled)
        /\ \A i \in 1..Len(yx) : \A v \in 1..Len(yx[i].x) : FilledAsClaimed(i, v)

(***************************************************************************)
(* uniformize_section                                                      *)
(*                                                                         *)
(* A row of a section profile holds y_low, y_sup, y_mid and the value x of *)
(* its variable; a row of a continuous profile holds y_mid and x, a frame  *)
(* without the column y_low.  A depth y_mid is <<m>>, or << >> when it is  *)
(* missing (NaN).  The depths are multiples of four ticks, so that every   *)
(* half taken below is a whole number of ticks.                            *)
(***************************************************************************)
isna(m) == m = <<>>

\* Series.dropna().values
dropna(s) == SelectSeq(s, LAMBDA m : ~isna(m))

\* (profile.y_low + profile.y_sup/2): the division binds before the sum
HalfSup(r) == r.y_low + (r.y_sup \div 2)

\* y_mid of the target: its column y_mid without the missing depths, unless the
\* target is a section profile whose y_mid are all missing
TargetMid(t) ==
    LET mids == [i \in 1..Len(t) |-> t[i].y_mid]
    IN  IF ~is_continuous(t)
        THEN IF ~(\A i \in 1..Len(t) : isna(t[i].y_mid))
             THEN [i \in 1..Len(dropna(mids)) |-> dropna(mids)[i][1]]
             ELSE [i \in 1..Len(t) |-> HalfSup(t[i])]
        ELSE [i \in 1..Len(dropna(mids)) |-> dropna(mids)[i][1]]

RECURSIVE InsertByMid(_, _)
InsertByMid(s, r) ==
    IF s = <<>> THEN <<r>>
    ELSE IF r.y_mid[1] < Head(s).y_mid[1] THEN <<r>> \o s
    ELSE <<Head(s)>> \o InsertByMid(Tail(s), r)

\* profile.sort_values(by='y_mid')
RECURSIVE SortByMid(_)
SortByMid(s) ==
    IF s = <<>> THEN <<>>
    ELSE InsertByMid(SortByMid(SubSeq(s, 1, Len(s) - 1)), s[Len(s)])

\* the source sorted; when a y_mid of a section source is missing the whole column
\* y_mid is assigned anew
SourceMid(p) ==
    IF is_continuous(p) THEN SortByMid(p)
    ELSE LET s == SortByYLow(p)
         IN  IF \E i \in 1..Len(s) : isna(s[i].y_mid)
             THEN [i \in 1..Len(s) |-> [s[i] EXCEPT !.y_mid = <<HalfSup(s[i])>>]]
             ELSE s

\* the columns of the source other than its variable and y_mid
attribute(p) == (DOMAIN p[1]) \ {"x", "y_mid"}

\* xp and fp of np.interp
Points(s) == [i \in 1..Len(s) |-> [y_mid |-> s[i].y_mid[1], x |-> s[i].x]]

\* profile_new: the interpolated value and y_mid of each target depth;
\* profile_new[attribute] = _attribute aligns the first row of the target on the
\* index, so the first row takes its attributes and the other rows hold NaN
NewRows(s, t, mids) ==
    [k \in 1..Len(mids) |->
        LET row == [x |-> <<interp(mids[k], Points(s), 1)>>, y_mid |-> mids[k]]
        IN  IF "y_low" \in attribute(s)
            THEN [x |-> row.x, y_mid |-> row.y_mid,
                  y_low |-> IF k = 1 THEN <<t[1].y_low>> ELSE <<>>,
                  y_sup |-> IF k = 1 THEN <<t[1].y_sup>> ELSE <<>>]
            ELSE row]

\* lines 657-664: the depths of the target
TargetMidpoints ==
    /\ pc = "start"
    /\ profile_target # <<>>
    /\ y_mid' = TargetMid(profile_target)
    /\ pc' = "source"
    /\ UNCHANGED <<profile, v_ref, y_bins, fill_gap, fill_extremity, yx, x_step, w_step,
                   y_step, y2x, w, temp, new_v_ref, h_ref, inplace, new_profile,
                   unique_variable, same_object, provided, criteria, variables2del,
                   profile_target, profile_new>>

\* lines 666-671: the local profile, sorted and with its y_mid; the caller's object is
\* not touched, sort_values returns a new frame
SourceMidpoints ==
    /\ pc = "source"
    /\ yx' = SourceMid(profile)
    /\ pc' = "interp"
    /\ UNCHANGED <<profile, v_ref, y_bins, y_mid, fill_gap, fill_extremity, x_step, w_step,
                   y_step, y2x, w, temp, new_v_ref, h_ref, inplace, new_profile,
                   unique_variable, same_object, provided, criteria, variables2del,
                   profile_target, profile_new>>

\* lines 675-685: the interpolation and the attributes; profile_target[attribute]
\* raises KeyError when the target lacks a column of the source
uniformize_section ==
    /\ pc = "interp"
    /\ IF attribute(yx) \subseteq DOMAIN profile_target[1]
       THEN pc' = "done" /\ profile_new' = NewRows(yx, profile_target, y_mid)
       ELSE pc' = "KeyError" /\ profile_new' = profile_new
    /\ UNCHANGED <<profile, v_ref, y_bins, y_mid, fill_gap, fill_extremity, yx, x_step,
                   w_step, y_step, y2x, w, temp, new_v_ref, h_ref, inplace, new_profile,
                   unique_variable, same_object, provided, criteria, variables2del,
                   profile_target>>

(***************************************************************************)
(* uniformize_section: the profiles and targets explored                   *)
(***************************************************************************)
UniformDepths == {0, 4, 8, 12}

UniformIntervals == {e \in UniformDepths \X UniformDepths : e[1] < e[2]}

UniformLayouts ==
    {l \in SUBSET UniformIntervals :
        /\ Cardinality(l) \in 1..MaxSections
        /\ \A e, f \in l : e # f => (e[2] <= f[1] \/ f[2] <= e[1])}

UniformValues == {<<QInt(5)>>, <<QInt(7)>>, <<NaN>>}

\* the midpoint of a section, which a profile holds in y_mid when it holds one
Middle(e) == (e[1] + e[2]) \div 2

\* section rows over a layout, the sections of M without y_mid
UniformRows(l, f, M) ==
    LET q == LayoutSeq(l)
    IN  [i \in 1..Len(q) |->
            [y_low |-> q[i][1], y_sup |-> q[i][2],
             y_mid |-> IF q[i] \in M THEN <<>> ELSE <<Middle(q[i])>>, x |-> f[q[i]]]]

SectionSources ==
    UNION {{UniformRows(l, f, M) : f \in [l -> UniformValues], M \in SUBSET l} :
           l \in UniformLayouts}

PointSources ==
    UNION {{[i \in 1..Len(LayoutSeq(l)) |->
                [y_mid |-> <<Middle(LayoutSeq(l)[i])>>, x |-> f[LayoutSeq(l)[i]]]] :
            f \in [l -> UniformValues]} : l \in UniformLayouts}

\* the rows of a source in the order of their depth, or in the opposite order
UniformSources ==
    LET S == SectionSources \cup PointSources
    IN  S \cup {Reverse(p) : p \in S}

SectionTargets ==
    UNION {{[i \in 1..Len(LayoutSeq(l)) |->
                [y_low |-> LayoutSeq(l)[i][1], y_sup |-> LayoutSeq(l)[i][2],
                 y_mid |-> IF LayoutSeq(l)[i] \in M THEN <<>>
                           ELSE <<Middle(LayoutSeq(l)[i])>>]] :
            M \in SUBSET l} : l \in UniformLayouts}

PointTargets ==
    {[i \in 1..Len(LayoutSeq(l)) |-> [y_mid |-> <<Middle(LayoutSeq(l)[i])>>]] :
        l \in UniformLayouts}

UniformTargets == SectionTargets \cup PointTargets

UniformizeInit ==
    /\ pc = "start"
    /\ profile \in UniformSources
    /\ profile_target \in UniformTargets
    /\ v_ref = "top"
    /\ y_bins = <<>>
    /\ y_mid = <<>>
    /\ fill_gap = FALSE
    /\ fill_extremity = FALSE
    /\ yx = <<>>
    /\ x_step = <<>>
    /\ w_step = <<>>
    /\ y_step = <<>>
    /\ y2x = <<>>
    /\ w = <<>>
    /\ temp = <<>>
    /\ new_v_ref = "None"
    /\ h_ref = <<>>
    /\ inplace = FALSE
    /\ new_profile = <<>>
    /\ unique_variable = <<>>
    /\ same_object = FALSE
    /\ provided = profile
    /\ criteria = <<>>
    /\ variables2del = <<>>
    /\ profile_new = <<>>

UniformizeNext ==
    \/ TargetMidpoints
    \/ SourceMidpoints
    \/ uniformize_section

SpecUniformize == UniformizeInit /\ [][UniformizeNext]_vars

(***************************************************************************)
(* The midpoints of uniformize_section: what the claim speaks of           *)
(***************************************************************************)
\* the sections of the source in ascending order, each at the midpoint the claim gives
\* it: its y_mid, or half the sum of its boundaries when y_mid is missing
ClaimedSource ==
    LET s == IF is_continuous(provided) THEN SortByMid(provided) ELSE SortByYLow(provided)
    IN  [i \in 1..Len(s) |->
            [y_mid |-> IF isna(s[i].y_mid) THEN Middle(<<s[i].y_low, s[i].y_sup>>)
                       ELSE s[i].y_mid[1],
             x |-> s[i].x]]

\* the value at depth y on the broken line through the claimed source midpoints
ClaimedValue(y) ==
    LET s == ClaimedSource
    IN  IF \E i \in 1..Len(s) : s[i].y_mid = y
        THEN s[CHOOSE i \in 1..Len(s) : s[i].y_mid = y].x[1]
        ELSE IF \E i \in 1..(Len(s) - 1) : s[i].y_mid < y /\ y < s[i + 1].y_mid
        THEN LET i == CHOOSE i \in 1..(Len(s) - 1) : s[i].y_mid < y /\ y < s[i + 1].y_mid
             IN  QDiv(QAdd(QMul(s[i].x[1], QInt(s[i + 1].y_mid - y)),
                           QMul(s[i + 1].x[1], QInt(y - s[i].y_mid))),
                      QInt(s[i + 1].y_mid - s[i].y_mid))
        ELSE NaN

\* C16: when a section of the target has no y_mid, the result holds a row at the
\* midpoint (y_low + y_sup) / 2 of that section, and the value of that row is the source
\* variable interpolated at that midpoint, the source sections without y_mid standing
\* at the midpoint (y_low + y_sup) / 2 of their own.
C16_MissingMidpointIsHalfSum ==
    (pc = "done" /\ ~is_continuous(profile_target)) =>
        \A i \in 1..Len(profile_target) :
            isna(profile_target[i].y_mid) =>
                \E k \in 1..Len(profile_new) :
                    /\ profile_new[k].y_mid
                           = Middle(<<profile_target[i].y_low, profile_target[i].y_sup>>)
                    /\ profile_new[k].x[1] = ClaimedValue(profile_new[k].y_mid)

====
